---- MODULE Spec2Model ----
(***************************************************************************)
(* Model of the Messenger CLI (src/messengercli/messenger.py): the         *)
(* manifest messenger.json, the generated source tree under src/Scenes and *)
(* src/SceneProtos, and the commands scene, level, remove and update that  *)
(* keep the two in step.                                                   *)
(*                                                                         *)
(* One invocation of the tool is one process: it loads messenger.json into *)
(* self.config, waits at the confirmation prompt, then runs the steps of   *)
(* its handler one after the other.  pc is the position inside the running *)
(* handler: "raised" when an exception ends the process, "exited" when     *)
(* execute_cmd's exit(1) or an interrupt does, "done" when the handler has *)
(* returned, "idle" when no process runs.                                  *)
(*                                                                         *)
(* Names are capitalized identifiers; they are modelled by the naturals    *)
(* 1..n, whose order stands for the lexicographic order of the directory   *)
(* names (so Boss = 1 sorts before Boss1 = 2).                             *)
(***************************************************************************)
EXTENDS Naturals, Sequences, FiniteSets, TLC

VARIABLES
    env,        \* the project directory: a git work tree, .messenger there
    json,       \* messenger.json on disk (the persisted manifest)
    config,     \* self.config of the running (or last) process
    sdirs,      \* src/Scenes/<name>: directory and generated files
    pdirs,      \* src/SceneProtos/<name>: directory and generated files
    roots,      \* do src/Scenes and src/SceneProtos exist
    allScenes,  \* src/Scenes/AllScenes.elm
    cmd,        \* the subcommand being run (or run last) and its arguments
    pc,         \* position inside the running handler, "idle" between runs
    idx,        \* loop position of remove's cascade over the levels
    exc,        \* the exception that ended the process, NoExc if none
    git,        \* the project's repository: index and work tree against HEAD
    tpl,        \* what git answers inside the template checkout .messenger
    gcs,        \* src/GlobalComponents and its directories
    upd,        \* an Updater: its templates, its destinations, its count
    arg         \* a name as typed on the command line, and check_name of it

vars == <<env, json, config, sdirs, pdirs, roots, allScenes, cmd, pc, idx, exc,
          git, tpl, gcs, upd, arg>>

\* What the scene, level, remove and update commands never write.
other == <<tpl, gcs, upd, arg>>

(***************************************************************************)
(* Bounds of the model.                                                    *)
(***************************************************************************)
MaxScene == 2
MaxProto == 1
MaxComp == 2
MaxLayer == 1

SceneNames == 1..MaxScene
ProtoNames == 1..MaxProto

\* The names of the scenario of the spec: "Boss" < "Boss1" lexicographically.
Boss == CHOOSE n \in ProtoNames : \A m \in ProtoNames : n <= m
Boss1 == Boss + 1

(***************************************************************************)
(* Program constants.                                                      *)
(***************************************************************************)
API_VERSION == "1.2.0"
OldVersion == "1.1.0"        \* some other recorded version
NoVersion == "<no version>"  \* messenger.json has no "version" key
NoProto == 0                 \* the scene dict has no "sceneproto" key
NoExc == ""
Components == 0              \* the default of --cdir; also a possible layer name

(***************************************************************************)
(* Python dicts keep insertion order and json.dump writes them in that     *)
(* order, so scenes and sceneprotos are sequences of entries.              *)
(***************************************************************************)
Keys(m) == {m[i].name : i \in DOMAIN m}

Has(m, k) == \E i \in DOMAIN m : m[i].name = k

Get(m, k) == m[CHOOSE i \in DOMAIN m : m[i].name = k]

\* d[k] = v: an existing key keeps its place, a new key goes last.
Put(m, e) ==
    IF Has(m, e.name)
    THEN [i \in DOMAIN m |-> IF m[i].name = e.name THEN e ELSE m[i]]
    ELSE Append(m, e)

\* d.pop(k)
Pop(m, k) == SelectSeq(m, LAMBDA e : e.name # k)

InList(l, x) == \E i \in DOMAIN l : l[i] = x

\* list.remove(x): drops the first occurrence.
ListRemove(l, x) ==
    LET i == CHOOSE j \in DOMAIN l : l[j] = x /\ \A h \in 1..(j - 1) : l[h] # x
    IN  [j \in 1..(Len(l) - 1) |-> IF j < i THEN l[j] ELSE l[j + 1]]

SceneEntry(n, r, sp) == [name |-> n, raw |-> r, sceneproto |-> sp]

ProtoEntry(n, r, ls) == [name |-> n, raw |-> r, levels |-> ls]

\* Text is a sequence of characters; "" is the empty sequence.
Blank == <<>>

\* The URL the templates were cloned from at `messenger init`.
Url == <<"u", "r", "l">>

\* The manifest written by `messenger init`.
InitObject(v, ac) ==
    [exists |-> TRUE, version |-> v, auto_commit |-> ac,
     template_repo |-> [url |-> Url, tag |-> Blank],
     scenes |-> <<>>, sceneprotos |-> <<>>]

NoJson == [exists |-> FALSE, version |-> NoVersion, auto_commit |-> FALSE,
           template_repo |-> [url |-> Blank, tag |-> Blank],
           scenes |-> <<>>, sceneprotos |-> <<>>]

(***************************************************************************)
(* Generated directories.  Of Model.elm only what update_config reads is   *)
(* kept: the "LevelInit" marker (lvl), the prototype named by the line     *)
(* `import SceneProtos.<P>.Model` (imp, NoProto when no line matches) and  *)
(* the "import Messenger.Scene.RawScene" marker (raw).  Below the scene    *)
(* directory: SceneBase.elm (base; baseEdited once the developer changed   *)
(* it), the component directory (cdir) with its ComponentBase.elm (cbase,  *)
(* cbaseEdited) and component directories (comps), the layer directories   *)
(* (layers).                                                               *)
(***************************************************************************)
NoDir == [exists |-> FALSE, isdir |-> FALSE, model |-> FALSE, lvl |-> FALSE,
          imp |-> NoProto, raw |-> FALSE, init |-> FALSE, base |-> FALSE,
          baseEdited |-> FALSE, cdir |-> FALSE, cbase |-> FALSE,
          cbaseEdited |-> FALSE, comps |-> {}, layers |-> {}]

EmptyDir == [NoDir EXCEPT !.exists = TRUE, !.isdir = TRUE]

\* An entry of src/Scenes or src/SceneProtos that is not a directory.
PlainFile == [NoDir EXCEPT !.exists = TRUE]

NoAllScenes == [exists |-> FALSE, list |-> <<>>]

NoCmd == [op |-> "none", name |-> 0, sceneproto |-> 0, raw |-> FALSE,
          is_proto |-> FALSE, init |-> FALSE, type |-> "none",
          remove |-> FALSE, remove_levels |-> FALSE,
          scene |-> 0, has_component |-> FALSE]

(***************************************************************************)
(* The templates of the checkout .messenger, as far as update_config can   *)
(* tell them apart.  The stock templates carry the markers the reconciler  *)
(* looks for: the Raw ones import Messenger.Scene.RawScene, the Level ones *)
(* mention ...LevelInit and import SceneProtos.<P>.Model after rep(P).     *)
(***************************************************************************)
SceneModelTemplate(raw) == [lvl |-> FALSE, imp |-> NoProto, raw |-> raw]

LevelTemplate(raw, sceneproto) == [lvl |-> TRUE, imp |-> sceneproto, raw |-> raw]

\* Updater(...) writing Model.elm of directory d with content t.
WriteModel(d, t) ==
    [d EXCEPT !.model = TRUE, !.lvl = t.lvl, !.imp = t.imp, !.raw = t.raw]

\* sorted(...) left out: the names as os.listdir may give them, here descending.
RECURSIVE Unsorted(_)
Unsorted(S) ==
    IF S = {} THEN <<>>
    ELSE LET m == CHOOSE x \in S : \A y \in S : x >= y
         IN  <<m>> \o Unsorted(S \ {m})

\* sorted(...) of a set of names, by path: ascending sequence.
RECURSIVE Sorted(_)
Sorted(S) ==
    IF S = {} THEN <<>>
    ELSE LET m == CHOOSE x \in S : \A y \in S : x <= y
         IN  <<m>> \o Sorted(S \ {m})

(***************************************************************************)
(* Messenger.__init__: the version gate.                                   *)
(***************************************************************************)
\* The comparison of line 66 left out.
GateAnyVersion(j) == j.exists

GateOpen(j) == j.exists /\ j.version # NoVersion /\ j.version = API_VERSION

\* The exception of lines 65, 67 and 71.
GateError(j) ==
    IF ~j.exists THEN "messenger.json not found."
    ELSE IF j.version = NoVersion THEN "Messenger API version not found."
    ELSE IF j.version # API_VERSION THEN "API version not matched."
    ELSE NoExc

(***************************************************************************)
(* Messenger.__update_scene                                                *)
(***************************************************************************)
\* One directory of src/SceneProtos: skipped without Model.elm.
VisitProto(n, c) ==
    IF ~(pdirs[n].exists /\ pdirs[n].model) THEN c
    ELSE [c EXCEPT !.sceneprotos = Put(@, ProtoEntry(n, pdirs[n].raw, <<>>))]

\* Lines 146-149: no prototype is looked for without the marker.
BackReferenceNone(d) == NoProto

\* `if match:` (line 149) left out: a marker without import names no prototype
\* that exists.
BackReferenceUnguarded(d) ==
    IF ~d.lvl THEN NoProto ELSE IF d.imp # NoProto THEN d.imp ELSE MaxProto + 1

\* Lines 146-149: the prototype a level's Model.elm refers back to.
BackReference(d) == IF d.lvl /\ d.imp # NoProto THEN d.imp ELSE NoProto

\* The lookup of line 151 made tolerant: a level whose prototype has no entry
\* is recorded with its reference and the scan goes on.
VisitSceneLenient(n, c) ==
    LET d == sdirs[n]
        sp == BackReference(d)
    IN  IF ~(d.exists /\ d.model) THEN c
        ELSE IF sp # NoProto /\ Has(c.sceneprotos, sp)
        THEN [c EXCEPT !.scenes = Put(@, SceneEntry(n, d.raw, sp)),
                       !.sceneprotos =
                           Put(@, [Get(c.sceneprotos, sp) EXCEPT
                                      !.levels = Append(@, n)])]
        ELSE [c EXCEPT !.scenes = Put(@, SceneEntry(n, d.raw, sp))]

\* One directory of src/Scenes.  c.err: the KeyError of line 151.
VisitScene(n, c) ==
    LET d == sdirs[n]
        sp == BackReference(d)
        linked == sp # NoProto
    IN  IF ~(d.exists /\ d.model) THEN c
        ELSE IF linked /\ ~Has(c.sceneprotos, sp)
        THEN [c EXCEPT !.scenes = Put(@, SceneEntry(n, FALSE, sp)), !.err = TRUE]
        ELSE LET p == IF linked THEN Get(c.sceneprotos, sp) ELSE ProtoEntry(0, FALSE, <<>>)
                 c1 == [c EXCEPT !.scenes = Put(@, SceneEntry(n, d.raw, sp))]
             IN  IF linked
                 THEN [c1 EXCEPT !.sceneprotos =
                          Put(@, [p EXCEPT !.levels = Append(@, n)])]
                 ELSE c1

RECURSIVE UpdateScene(_, _, _, _)
UpdateScene(isProto, order, i, c) ==
    IF i > Len(order) \/ c.err THEN c
    ELSE UpdateScene(isProto, order, i + 1,
                     IF isProto THEN VisitProto(order[i], c) ELSE VisitScene(order[i], c))

\* os.listdir restricted to the directories (line 139).
ListDirs(dirs) == {n \in DOMAIN dirs : dirs[n].exists /\ dirs[n].isdir}

(***************************************************************************)
(* Messenger.update_config, lines 106-127: the template source read back   *)
(* from the checkout .messenger.  execute_cmd(..., allow_err=True) gives   *)
(* the return code of git and its standard output, which ends with a line  *)
(* feed.                                                                   *)
(***************************************************************************)
LF == "\n"
Whitespace == {" ", LF}

Ok(out) == [code |-> 0, out |-> out \o <<LF>>]
Failed == [code |-> 128, out |-> Blank]

OriginSlash == <<"o", "r", "i", "g", "i", "n", "/">>
Main == <<"m", "a", "i", "n">>
Master == <<"m", "a", "s", "t", "e", "r">>
Main2 == <<"m", "a", "i", "n", "2">>
Dev == <<"d", "e", "v">>
TagV1 == <<"v", "1">>

\* The branches a clone of the template repository may follow.
Branches == {Main, Master, Main2, Dev}

\* str.strip(): the white space at both ends goes.
RECURSIVE Strip(_)
Strip(t) ==
    IF t = <<>> THEN t
    ELSE IF Head(t) \in Whitespace THEN Strip(Tail(t))
    ELSE IF t[Len(t)] \in Whitespace THEN Strip(SubSeq(t, 1, Len(t) - 1))
    ELSE t

\* t[n:]
Drop(t, n) == SubSeq(t, n + 1, Len(t))

\* re.match in place of re.fullmatch: a prefix is enough.
MatchOriginMain(t) ==
    \E b \in {Main, Master} :
        /\ Len(t) >= Len(OriginSlash \o b)
        /\ SubSeq(t, 1, Len(OriginSlash \o b)) = OriginSlash \o b

\* re.fullmatch(r'origin/(main|master)', t) of line 121.
FullMatchOriginMain(t) == t \in {OriginSlash \o Main, OriginSlash \o Master}

\* Lines 98 and 107-127: url and tag of template_repo.
TemplateRepo(t) ==
    IF t.inside.code # 0 THEN [url |-> Blank, tag |-> Blank]
    ELSE [url |-> IF t.url.code = 0 THEN Strip(t.url.out) ELSE Blank,
          tag |-> IF t.tag.code = 0 THEN Strip(t.tag.out)
                  ELSE IF t.upstream.code # 0 THEN Blank
                  ELSE IF FullMatchOriginMain(Strip(t.upstream.out)) THEN Blank
                  ELSE Drop(Strip(t.upstream.out), Len(OriginSlash))]

\* A clone of the default branch, as `messenger init` makes it (line 655).
TemplateClone ==
    [inside |-> Ok(<<"t", "r", "u", "e">>), url |-> Ok(Url), tag |-> Failed,
     upstream |-> Ok(OriginSlash \o Main)]

(***************************************************************************)
(* Messenger.update_config: the manifest rebuilt from the directory tree.  *)
(***************************************************************************)
\* Lines 99-102 with the two branches swapped.
AutoCommitSwapped(c) == ~(env.git /\ c.auto_commit)

\* Lines 99-102: auto_commit survives only inside a git work tree.
AutoCommit(c) == env.git /\ c.auto_commit

\* Lines 103-104 left out: the recorded maps stay.
ResetMapsForgotten(c) == c

\* Lines 103-104: both maps start empty.
ResetMaps(c) == [c EXCEPT !.scenes = <<>>, !.sceneprotos = <<>>]

UpdateConfig(c) ==
    LET c0 == ResetMaps([exists |-> TRUE, version |-> API_VERSION,
                         template_repo |-> TemplateRepo(tpl),
                         auto_commit |-> AutoCommit(c),
                         scenes |-> c.scenes, sceneprotos |-> c.sceneprotos,
                         err |-> FALSE])
        c1 == IF roots.protos
              THEN UpdateScene(TRUE, Sorted(ListDirs(pdirs)), 1, c0)
              ELSE c0
    IN  UpdateScene(FALSE, Sorted(ListDirs(sdirs)), 1, c1)

Manifest(c) ==
    [exists |-> TRUE, version |-> c.version, auto_commit |-> c.auto_commit,
     template_repo |-> c.template_repo,
     scenes |-> c.scenes, sceneprotos |-> c.sceneprotos]

(***************************************************************************)
(* The project's repository, as far as `git status --porcelain` tells:     *)
(* the paths the index knows (tracked), the paths of the work tree it does *)
(* not know (untracked), the tracked paths whose work tree differs from    *)
(* the index (modified), the paths whose index differs from HEAD (staged). *)
(* A path is messenger.json, AllScenes.elm, or one generated directory     *)
(* with all its files; git does not see a directory without files.         *)
(***************************************************************************)
MaxGc == 1
GcNames == 1..MaxGc

Path(root, name) == [root |-> root, name |-> name]
JsonPath == Path("messenger.json", 0)
AllScenesPath == Path("AllScenes.elm", 0)
DirPath(is_proto, n) == Path(IF is_proto THEN "SceneProtos" ELSE "Scenes", n)
GcPath(n) == Path("GlobalComponents", n)

Paths ==
    {JsonPath, AllScenesPath}
    \cup {DirPath(FALSE, n) : n \in SceneNames}
    \cup {DirPath(TRUE, n) : n \in ProtoNames}
    \cup {GcPath(n) : n \in GcNames}

NoRepo == [tracked |-> {}, untracked |-> {}, modified |-> {}, staged |-> {}]

\* A file, or a directory that holds one.
HasFiles(d) ==
    d.exists /\ (~d.isdir \/ d.model \/ d.init \/ d.base \/ d.cbase
                 \/ d.comps # {} \/ d.layers # {})

OnDisk(p) ==
    CASE p.root = "messenger.json" -> json.exists
      [] p.root = "AllScenes.elm" -> allScenes.exists
      [] p.root = "Scenes" -> HasFiles(sdirs[p.name])
      [] p.root = "SceneProtos" -> HasFiles(pdirs[p.name])
      [] OTHER -> gcs.dirs[p.name] = "made"

\* Outside a work tree there is nothing to follow.
InRepo(g) == IF env.git THEN g ELSE git

\* A file under p is created or changed.
WorkTreeWrite(g, p) ==
    IF p \in g.tracked THEN [g EXCEPT !.modified = @ \cup {p}]
    ELSE [g EXCEPT !.untracked = @ \cup {p}]

\* shutil.rmtree of p.
WorkTreeDelete(g, p) ==
    [g EXCEPT !.untracked = @ \ {p},
              !.modified = IF p \in g.tracked THEN @ \cup {p} ELSE @]

\* git add p, p being in the work tree.
GitAdd(g, p) ==
    IF p \notin g.untracked \cup g.modified THEN g
    ELSE [tracked |-> g.tracked \cup {p}, untracked |-> g.untracked \ {p},
          modified |-> g.modified \ {p}, staged |-> g.staged \cup {p}]

\* git commit -m ...: the index becomes HEAD.
GitCommit(g) == [g EXCEPT !.staged = {}]

\* git status --porcelain (line 85): the paths it lists.
GitStatus(g) == g.untracked \cup g.modified \cup g.staged

\* The repository once the whole work tree is committed.
Committed ==
    [tracked |-> {p \in Paths : OnDisk(p)}, untracked |-> {}, modified |-> {},
     staged |-> {}]

\* Files are written under p and, with auto_commit, added (`git add p`).
Generated(g, p, auto_commit) ==
    IF auto_commit THEN GitAdd(WorkTreeWrite(g, p), p) ELSE WorkTreeWrite(g, p)

\* dump_config, lines 93-94: messenger.json changes in the work tree and,
\* with auto_commit, is added.
Dumped(g, c, old) ==
    LET g1 == IF c = old THEN g ELSE WorkTreeWrite(g, JsonPath)
    IN  IF c.auto_commit THEN GitAdd(g1, JsonPath) ELSE g1

\* src/GlobalComponents: nothing yet.
NoGcs == [root |-> FALSE, dirs |-> [n \in GcNames |-> "absent"]]

\* No Updater, no name.
NoUpdater == [f |-> <<>>, t |-> <<>>, count |-> 0, values |-> <<>>,
              exc |-> NoExc]
NoArg == [typed |-> <<>>, name |-> <<>>, calls |-> 0]

(***************************************************************************)
(* The state `messenger init` leaves outside a git work tree (lines        *)
(* 600-697; auto_commit is recorded with --auto-commit only, and then a    *)
(* repository is made), with the versions a manifest written by another    *)
(* release of the tool, or edited by hand, may carry; messenger.json may   *)
(* also be missing, and so may .messenger.                                 *)
(***************************************************************************)
InitFiles ==
    /\ config = NoJson
    /\ sdirs = [n \in SceneNames |-> NoDir]
    /\ pdirs = [n \in ProtoNames |-> NoDir]
    /\ roots = [scenes |-> TRUE, protos |-> FALSE]
    /\ allScenes = NoAllScenes
    /\ cmd = NoCmd
    /\ pc = "idle"
    /\ idx = 0
    /\ exc = NoExc
    /\ tpl = TemplateClone
    /\ gcs = NoGcs

Init ==
    /\ env \in [git : {FALSE}, checkout : BOOLEAN]
    /\ json \in {InitObject(v, FALSE) : v \in {API_VERSION, OldVersion, NoVersion}}
                \cup {NoJson}
    /\ InitFiles
    /\ git = NoRepo
    /\ upd = NoUpdater
    /\ arg = NoArg

fsvars == <<sdirs, pdirs, roots, allScenes>>

(***************************************************************************)
(* The command lines.                                                      *)
(***************************************************************************)
SceneCmds(names, raws, inits) ==
    {[NoCmd EXCEPT !.op = "scene", !.name = n, !.raw = r, !.init = i] :
        n \in names, r \in raws, i \in inits}

ProtoCmds(names, raws, inits) ==
    {[NoCmd EXCEPT !.op = "scene", !.is_proto = TRUE, !.name = n, !.raw = r,
                   !.init = i] :
        n \in names, r \in raws, i \in inits}

LevelCmds ==
    {[NoCmd EXCEPT !.op = "level", !.name = n, !.sceneproto = sp] :
        n \in SceneNames, sp \in ProtoNames}

RemoveCmds ==
    {[NoCmd EXCEPT !.op = "remove", !.type = "scene", !.name = n, !.remove = rm] :
        n \in SceneNames, rm \in BOOLEAN}
    \cup
    {[NoCmd EXCEPT !.op = "remove", !.type = "sceneproto", !.name = n,
                   !.remove = rm, !.remove_levels = rml] :
        n \in ProtoNames, rm \in BOOLEAN, rml \in BOOLEAN}
    \cup
    {[NoCmd EXCEPT !.op = "remove", !.type = "other", !.name = Boss]}

UpdateCmds == {[NoCmd EXCEPT !.op = "update"]}

\* The command lines of Spec.  Plain scenes are layered and without
\* Init.elm here; prototypes, and so their levels, are raw or layered.
Cmds ==
    SceneCmds(SceneNames, {FALSE}, {FALSE})
    \cup ProtoCmds(ProtoNames, BOOLEAN, {FALSE})
    \cup LevelCmds \cup RemoveCmds \cup UpdateCmds

\* An exception ends the process.
Raise(e) == pc' = "raised" /\ exc' = e /\ idx' = 0

\* The handler goes on to its next step.
Goto(l) == pc' = l /\ UNCHANGED <<idx, exc>>

(***************************************************************************)
(* A subcommand starts: check_name, Messenger() and its version gate.  A   *)
(* missing .messenger is cloned there (lines 74-82); a failed git clone is *)
(* execute_cmd's exit(1).                                                  *)
(***************************************************************************)
Begin(c) ==
    /\ pc = "idle"
    /\ cmd' = c
    /\ config' = json
    /\ idx' = 0
    /\ IF ~GateOpen(json)
       THEN pc' = "raised" /\ exc' = GateError(json) /\ UNCHANGED env
       ELSE /\ exc' = NoExc
            /\ \/ pc' = "prompt" /\ env' = [env EXCEPT !.checkout = TRUE]
               \/ ~env.checkout /\ pc' = "exited" /\ UNCHANGED env
    /\ UNCHANGED <<other, git, json, fsvars>>

EntryPoint(op) ==
    CASE op = "scene" -> "add_scene"
      [] op = "level" -> "add_level"
      [] op = "remove" -> "remove"
      [] op = "component" -> "add_component"
      [] op = "layer" -> "add_layer"
      [] op = "gc" -> "add_gc"
      [] OTHER -> "update_config"

\* The commands that call check_git_clean (lines 727, 751, 769, 788, 816).
CreateOps == {"scene", "level", "component", "layer", "gc"}

\* check_git_clean, lines 84-88: `git status --porcelain` prints nothing.
TreeClean(g) == GitStatus(g) = {}

\* input(...) returns; with auto_commit a create command looks at the work
\* tree before anything else.
Confirm ==
    /\ pc = "prompt"
    /\ IF cmd.op \in CreateOps /\ config.auto_commit /\ ~TreeClean(git)
       THEN Raise("Your git repository is not clean.")
       ELSE Goto(EntryPoint(cmd.op))
    /\ UNCHANGED <<other, git, env, json, config, fsvars, cmd>>

(***************************************************************************)
(* The process is ended between two steps: execute_cmd exits on a failed   *)
(* external command, an Updater finds no template, or the operator         *)
(* interrupts.  Whatever was written stays.                                *)
(***************************************************************************)
Abort ==
    /\ pc \notin {"idle", "raised", "exited", "done"}
    /\ pc' = "exited"
    /\ idx' = 0
    /\ UNCHANGED <<other, git, env, json, config, fsvars, cmd, exc>>

\* dump_config left out: the change stays in memory.
DumpConfigSkipped(c) == json' = json

\* dump_config: json.dump(self.config) into messenger.json.
DumpConfig(c) == json' = Manifest(c)

\* dump_config as the repository sees it.
DumpConfigGit(c) == git' = InRepo(Dumped(git, Manifest(c), json))

(***************************************************************************)
(* Messenger.add_scene, up to its dump_config.                             *)
(***************************************************************************)
\* The check of line 229 left out.
SceneExistsProtoOnly(c, name, is_proto) == is_proto /\ Has(c.sceneprotos, name)

\* Lines 195 and 229: each kind is checked against its own map only.
SceneExists(c, name, is_proto) ==
    IF is_proto THEN Has(c.sceneprotos, name) ELSE Has(c.scenes, name)

\* Lines 197-200 and 231-233.
RegisterScene(c, name, raw, is_proto) ==
    IF is_proto
    THEN [c EXCEPT !.sceneprotos = Put(@, ProtoEntry(name, raw, <<>>))]
    ELSE [c EXCEPT !.scenes = Put(@, SceneEntry(name, raw, NoProto))]

AddScene ==
    /\ pc = "add_scene"
    /\ LET c1 == RegisterScene(config, cmd.name, cmd.raw, cmd.is_proto)
       IN  /\ roots' = IF cmd.is_proto THEN [roots EXCEPT !.protos = TRUE]
                                       ELSE [roots EXCEPT !.scenes = TRUE]
           /\ IF SceneExists(config, cmd.name, cmd.is_proto)
              THEN /\ Raise(IF cmd.is_proto THEN "Sceneproto already exists."
                                            ELSE "Scene already exists.")
                   /\ UNCHANGED <<config, json, git>>
              ELSE /\ config' = c1
                   /\ DumpConfig(c1)
                   /\ DumpConfigGit(c1)
                   /\ Goto("mkdir")
    /\ UNCHANGED <<other, env, sdirs, pdirs, allScenes, cmd>>

(***************************************************************************)
(* Messenger.add_level, up to its first dump_config.                       *)
(***************************************************************************)
\* The check of line 164 left out.
LevelRejectedProtoOnly(c, name, sceneproto) == ~Has(c.sceneprotos, sceneproto)

\* Lines 162-165: the two checks of add_level.
LevelRejected(c, name, sceneproto) ==
    ~Has(c.sceneprotos, sceneproto) \/ Has(c.scenes, name)

\* Line 172: the level joins the prototype's levels.
JoinLevelsAt(c, name, sceneproto) ==
    LET p == Get(c.sceneprotos, sceneproto)
    IN  [c EXCEPT !.sceneprotos = Put(@, [p EXCEPT !.levels = Append(@, name)])]

\* Line 168 with a fixed raw: the level does not look at its prototype.
RegisterLevelLayered(c, name, sceneproto) ==
    [c EXCEPT !.scenes = Put(@, SceneEntry(name, FALSE, sceneproto))]

\* Line 172 moved before the first dump_config.
RegisterLevelAndJoin(c, name, sceneproto) ==
    JoinLevelsAt([c EXCEPT !.scenes =
                     Put(@, SceneEntry(name, Get(c.sceneprotos, sceneproto).raw,
                                       sceneproto))],
                 name, sceneproto)

\* Lines 166-169: the scene entry, raw taken from the prototype.
RegisterLevel(c, name, sceneproto) ==
    [c EXCEPT !.scenes =
        Put(@, SceneEntry(name, Get(c.sceneprotos, sceneproto).raw, sceneproto))]

\* Line 172 left out.
JoinLevelsForgotten(c, name, sceneproto) == c

\* Line 172.
JoinLevels(c, name, sceneproto) == JoinLevelsAt(c, name, sceneproto)

AddLevel ==
    /\ pc = "add_level"
    /\ roots' = [roots EXCEPT !.scenes = TRUE]
    /\ IF LevelRejected(config, cmd.name, cmd.sceneproto)
       THEN /\ Raise(IF ~Has(config.sceneprotos, cmd.sceneproto)
                     THEN "Sceneproto doesn't exist."
                     ELSE "Level or scene already exists.")
            /\ UNCHANGED <<config, json, git>>
       ELSE LET c1 == RegisterLevel(config, cmd.name, cmd.sceneproto)
            IN  /\ config' = c1
                /\ DumpConfig(c1)
                /\ DumpConfigGit(c1)
                /\ Goto("mkdir")
    /\ UNCHANGED <<other, env, sdirs, pdirs, allScenes, cmd>>

\* os.mkdir of the new scene or sceneproto directory (lines 171, 202, 235).
Mkdir ==
    /\ pc = "mkdir"
    /\ LET dirs == IF cmd.is_proto THEN pdirs ELSE sdirs
       IN  IF dirs[cmd.name].exists
           THEN Raise("FileExistsError") /\ UNCHANGED <<sdirs, pdirs>>
           ELSE /\ IF cmd.is_proto
                   THEN pdirs' = [pdirs EXCEPT ![cmd.name] = EmptyDir]
                        /\ UNCHANGED sdirs
                   ELSE sdirs' = [sdirs EXCEPT ![cmd.name] = EmptyDir]
                        /\ UNCHANGED pdirs
                /\ Goto(IF cmd.op = "level" THEN "append" ELSE "gen")
    /\ UNCHANGED <<other, git, env, json, config, roots, allScenes, cmd>>

\* add_level, lines 172-173: the level joins the prototype's levels; second dump.
AppendLevel ==
    /\ pc = "append"
    /\ LET c1 == JoinLevels(config, cmd.name, cmd.sceneproto)
       IN  config' = c1 /\ DumpConfig(c1) /\ DumpConfigGit(c1)
    /\ Goto("gen")
    /\ UNCHANGED <<other, env, fsvars, cmd>>

\* The files the Updaters of add_scene write into directory d.
SceneFiles(d, raw, is_proto, init) ==
    [WriteModel(d, SceneModelTemplate(raw)) EXCEPT
        !.init = @ \/ is_proto \/ init,
        !.base = @ \/ ~raw]

\* The Updater of add_level.
LevelFiles(d, raw, sceneproto) == WriteModel(d, LevelTemplate(raw, sceneproto))

\* The Updater calls of add_scene (204-223, 236-256) and add_level (174-184),
\* and the `git add` of the directory (lines 186, 225, 258).
Generate ==
    /\ pc = "gen"
    /\ IF cmd.op = "level"
       THEN /\ sdirs' = [sdirs EXCEPT ![cmd.name] =
                   LevelFiles(@, Get(config.sceneprotos, cmd.sceneproto).raw,
                              cmd.sceneproto)]
            /\ UNCHANGED pdirs
       ELSE IF cmd.is_proto
       THEN /\ pdirs' = [pdirs EXCEPT ![cmd.name] =
                   SceneFiles(@, cmd.raw, TRUE, cmd.init)]
            /\ UNCHANGED sdirs
       ELSE /\ sdirs' = [sdirs EXCEPT ![cmd.name] =
                   SceneFiles(@, cmd.raw, FALSE, cmd.init)]
            /\ UNCHANGED pdirs
    /\ git' = InRepo(Generated(git, DirPath(cmd.op # "level" /\ cmd.is_proto,
                                             cmd.name),
                                config.auto_commit))
    /\ Goto("update_scenes")
    /\ UNCHANGED <<other, env, json, config, roots, allScenes, cmd>>

\* Messenger.update_scenes: AllScenes.elm lists sorted(config["scenes"]).
UpdateScenes ==
    /\ pc = "update_scenes"
    /\ allScenes' = IF roots.scenes
                    THEN [exists |-> TRUE, list |-> Sorted(Keys(config.scenes))]
                    ELSE allScenes
    /\ git' = InRepo(LET g1 == IF allScenes' = allScenes THEN git
                               ELSE WorkTreeWrite(git, AllScenesPath)
                     IN  IF roots.scenes /\ config.auto_commit
                         THEN GitAdd(g1, AllScenesPath) ELSE g1)
    /\ Goto(IF cmd.op = "remove" THEN "rmtree" ELSE "finish")
    /\ UNCHANGED <<other, env, json, config, sdirs, pdirs, roots, cmd>>

\* The commands that end with `git commit` under auto_commit; remove has
\* none (lines 849-889).
CommitOps == CreateOps \cup {"update"}

\* format, git commit, print("Done!"): the handler returns.  `git commit`
\* with an empty index returns 1, which is execute_cmd's exit(1).
Finish ==
    /\ pc = "finish"
    /\ IF cmd.op \in CommitOps /\ config.auto_commit
       THEN IF git.staged = {}
            THEN pc' = "exited" /\ UNCHANGED <<git, idx, exc>>
            ELSE git' = GitCommit(git) /\ Goto("done")
       ELSE Goto("done") /\ UNCHANGED git
    /\ UNCHANGED <<other, env, json, config, fsvars, cmd>>

\* The process has ended; its memory is gone.
Exit ==
    /\ pc \in {"raised", "exited", "done"}
    /\ pc' = "idle"
    /\ cmd' = NoCmd
    /\ config' = NoJson
    /\ exc' = NoExc
    /\ UNCHANGED <<other, git, env, json, fsvars, idx>>

(***************************************************************************)
(* update: Messenger.update_config in one piece, its single dump_config at *)
(* the end.  A back-reference to a prototype without directory raises      *)
(* after src/Scenes was made and before anything is written.               *)
(***************************************************************************)
Update ==
    /\ pc = "update_config"
    /\ LET c1 == UpdateConfig(config)
       IN  /\ roots' = [roots EXCEPT !.scenes = TRUE]
           /\ config' = Manifest(c1)
           /\ IF c1.err
              THEN Raise("KeyError") /\ UNCHANGED <<json, git>>
              ELSE DumpConfig(c1) /\ DumpConfigGit(c1) /\ Goto("finish")
    /\ UNCHANGED <<other, env, sdirs, pdirs, allScenes, cmd>>

(***************************************************************************)
(* remove                                                                  *)
(***************************************************************************)
\* Line 866 left out: the scene leaves the scenes map only.
DetachSceneOnly(c, name) == [c EXCEPT !.scenes = Pop(@, name)]

\* Lines 864-867: the scene leaves its prototype's levels and the scenes map.
DetachScene(c, name) ==
    LET sp == Get(c.scenes, name).sceneproto
        c1 == IF sp = NoProto THEN c
              ELSE LET p == Get(c.sceneprotos, sp)
                   IN  [c EXCEPT !.sceneprotos =
                           Put(@, [p EXCEPT !.levels = ListRemove(@, name)])]
    IN  [c1 EXCEPT !.scenes = Pop(@, name)]

\* Line 866 raises KeyError without the prototype, ValueError without the name.
DetachError(c, name) ==
    LET sp == Get(c.scenes, name).sceneproto
    IN  IF sp = NoProto THEN NoExc
        ELSE IF ~Has(c.sceneprotos, sp) THEN "KeyError"
        ELSE IF ~InList(Get(c.sceneprotos, sp).levels, name) THEN "ValueError"
        ELSE NoExc

\* The refusal of lines 880-883 left out.
LevelsNeverInUse(p, remove_levels) == FALSE

\* Lines 874-883: levels in use and no --rml.
LevelsInUse(p, remove_levels) == Len(p.levels) > 0 /\ ~remove_levels

\* type == "scene", lines 862-867.
RemoveScene ==
    /\ pc = "remove"
    /\ cmd.type = "scene"
    /\ IF ~Has(config.scenes, cmd.name)
       THEN Raise("Scene doesn't exist.") /\ UNCHANGED config
       ELSE IF DetachError(config, cmd.name) # NoExc
       THEN Raise(DetachError(config, cmd.name)) /\ UNCHANGED config
       ELSE /\ config' = DetachScene(config, cmd.name)
            /\ Goto("update_scenes")
    /\ UNCHANGED <<other, git, env, json, fsvars, cmd>>

\* type == "scene", lines 869-870: shutil.rmtree of the scene directory.
RmTree ==
    /\ pc = "rmtree"
    /\ IF ~cmd.remove
       THEN Goto("dump") /\ UNCHANGED <<sdirs, git>>
       ELSE IF ~sdirs[cmd.name].exists
       THEN Raise("FileNotFoundError") /\ UNCHANGED <<sdirs, git>>
       ELSE /\ sdirs' = [sdirs EXCEPT ![cmd.name] = NoDir]
            /\ git' = InRepo(WorkTreeDelete(git, DirPath(FALSE, cmd.name)))
            /\ Goto("dump")
    /\ UNCHANGED <<other, env, json, config, pdirs, roots, allScenes, cmd>>

\* type == "sceneproto", lines 872-883: the checks before the cascade.
RemoveProto ==
    /\ pc = "remove"
    /\ cmd.type = "sceneproto"
    /\ IF ~Has(config.sceneprotos, cmd.name)
       THEN Raise("Sceneproto doesn't exist.")
       ELSE IF LevelsInUse(Get(config.sceneprotos, cmd.name), cmd.remove_levels)
       THEN Raise("There are levels using the sceneproto.")
       ELSE IF Len(Get(config.sceneprotos, cmd.name).levels) > 0 /\ cmd.remove_levels
       THEN pc' = "rm_levels" /\ idx' = 1 /\ UNCHANGED exc
       ELSE Goto("pop_proto")
    /\ UNCHANGED <<other, git, env, json, config, fsvars, cmd>>

\* One turn of the loop of lines 876-879.
RemoveLevel ==
    /\ pc = "rm_levels"
    /\ LET levels == Get(config.sceneprotos, cmd.name).levels
           level == levels[idx]
       IN  IF ~Has(config.scenes, level)
           THEN Raise("KeyError") /\ UNCHANGED <<config, sdirs, git>>
           ELSE /\ config' = [config EXCEPT !.scenes = Pop(@, level)]
                /\ IF cmd.remove /\ ~sdirs[level].exists
                   THEN Raise("FileNotFoundError") /\ UNCHANGED <<sdirs, git>>
                   ELSE /\ sdirs' = IF cmd.remove
                                    THEN [sdirs EXCEPT ![level] = NoDir]
                                    ELSE sdirs
                        /\ git' = IF cmd.remove
                                  THEN InRepo(WorkTreeDelete(
                                                 git, DirPath(FALSE, level)))
                                  ELSE git
                        /\ IF idx < Len(levels)
                           THEN idx' = idx + 1 /\ UNCHANGED <<pc, exc>>
                           ELSE idx' = 0 /\ pc' = "pop_proto" /\ UNCHANGED exc
    /\ UNCHANGED <<other, env, json, pdirs, roots, allScenes, cmd>>

\* Lines 884-886: the prototype leaves the manifest, and the disk with --rm.
PopProto ==
    /\ pc = "pop_proto"
    /\ config' = [config EXCEPT !.sceneprotos = Pop(@, cmd.name)]
    /\ IF cmd.remove /\ ~pdirs[cmd.name].exists
       THEN Raise("FileNotFoundError") /\ UNCHANGED <<pdirs, git>>
       ELSE /\ pdirs' = IF cmd.remove THEN [pdirs EXCEPT ![cmd.name] = NoDir]
                                      ELSE pdirs
            /\ git' = IF cmd.remove
                      THEN InRepo(WorkTreeDelete(git, DirPath(TRUE, cmd.name)))
                      ELSE git
            /\ Goto("dump")
    /\ UNCHANGED <<other, env, json, sdirs, roots, allScenes, cmd>>

\* Lines 887-888: any other type only prints.
RemoveOther ==
    /\ pc = "remove"
    /\ cmd.type = "other"
    /\ Goto("dump")
    /\ UNCHANGED <<other, git, env, json, config, fsvars, cmd>>

\* Line 889: the only dump_config of remove.
RemoveDump ==
    /\ pc = "dump"
    /\ DumpConfig(config)
    /\ DumpConfigGit(config)
    /\ Goto("finish")
    /\ UNCHANGED <<other, env, config, fsvars, cmd>>

\* The steps of a running process.
Step ==
    \/ Confirm
    \/ Abort
    \/ AddScene
    \/ AddLevel
    \/ Mkdir
    \/ AppendLevel
    \/ Generate
    \/ UpdateScenes
    \/ Finish
    \/ Exit
    \/ Update
    \/ RemoveScene
    \/ RmTree
    \/ RemoveProto
    \/ RemoveLevel
    \/ PopProto
    \/ RemoveOther
    \/ RemoveDump

Next ==
    \/ \E c \in Cmds : Begin(c)
    \/ Step

Spec == Init /\ [][Next]_vars

(***************************************************************************)
(* update on any project tree: the directories and their Model.elm files   *)
(* are whatever the operator left, the manifest whatever was recorded.     *)
(***************************************************************************)
SceneDirStates ==
    {NoDir, EmptyDir, PlainFile}
    \cup {WriteModel(EmptyDir, [lvl |-> l, imp |-> i, raw |-> r]) :
            l \in BOOLEAN, i \in {NoProto} \cup ProtoNames, r \in BOOLEAN}

ProtoDirStates ==
    {NoDir, EmptyDir, PlainFile}
    \cup {WriteModel(EmptyDir, SceneModelTemplate(r)) : r \in BOOLEAN}

RecordedManifests ==
    {[InitObject(API_VERSION, ac) EXCEPT !.scenes = sc, !.sceneprotos = sp] :
        ac \in BOOLEAN,
        sc \in {<<>>, <<SceneEntry(Boss1, TRUE, Boss)>>},
        sp \in {<<>>, <<ProtoEntry(Boss, TRUE, <<Boss1>>)>>}}

InitFS ==
    /\ env \in [git : BOOLEAN, checkout : BOOLEAN]
    /\ json \in RecordedManifests
    /\ config = NoJson
    /\ roots \in [scenes : BOOLEAN, protos : BOOLEAN]
    /\ sdirs \in [SceneNames -> SceneDirStates]
    /\ pdirs \in [ProtoNames -> ProtoDirStates]
    /\ \A n \in SceneNames : sdirs[n].exists => roots.scenes
    /\ \A n \in ProtoNames : pdirs[n].exists => roots.protos
    /\ allScenes = NoAllScenes
    /\ cmd = NoCmd
    /\ pc = "idle"
    /\ idx = 0
    /\ exc = NoExc
    /\ tpl = TemplateClone
    /\ gcs = NoGcs
    /\ upd = NoUpdater
    /\ arg = NoArg
    /\ git = IF env.git THEN Committed ELSE NoRepo

NextFS ==
    \/ \E c \in UpdateCmds : Begin(c)
    \/ Confirm
    \/ Abort
    \/ Update
    \/ Finish
    \/ Exit

SpecFS == InitFS /\ [][NextFS]_vars

(***************************************************************************)
(* component and layer: Messenger.add_component and Messenger.add_layer on *)
(* a project with one scene and one sceneproto, the component directory    *)
(* being the default one.  Between two invocations the developer may edit  *)
(* the generated SceneBase.elm and ComponentBase.elm.                      *)
(***************************************************************************)
CompNames == 1..MaxComp
LayerNames == (1..MaxLayer) \cup {Components}

\* The directory of the scene or sceneproto the command names.
TheDir == IF cmd.is_proto THEN pdirs[cmd.scene] ELSE sdirs[cmd.scene]

\* That directory becomes d.
SetDir(d) ==
    IF cmd.is_proto
    THEN pdirs' = [pdirs EXCEPT ![cmd.scene] = d] /\ UNCHANGED sdirs
    ELSE sdirs' = [sdirs EXCEPT ![cmd.scene] = d] /\ UNCHANGED pdirs

\* Files are generated in that directory, and added with auto_commit.
GenerateInDir ==
    git' = InRepo(Generated(git, DirPath(cmd.is_proto, cmd.scene),
                            config.auto_commit))

\* The map the command looks the scene up in (lines 293, 334, 399, 442).
TheMap == IF cmd.is_proto THEN config.sceneprotos ELSE config.scenes

\* Updater(...) writing SceneBase.elm from its template.
WriteSceneBase(d) == [d EXCEPT !.base = TRUE, !.baseEdited = FALSE]

\* Updater(...) writing ComponentBase.elm from its template.
WriteComponentBase(d) == [d EXCEPT !.cbase = TRUE, !.cbaseEdited = FALSE]

\* os.makedirs of the component directory: the missing parents are made too.
MakeDirs(d) == [d EXCEPT !.exists = TRUE, !.isdir = TRUE, !.cdir = TRUE]

\* The probe of SceneBase.elm left out.
SceneBaseProbeSkipped(d) == TRUE

\* os.path.exists(".../SceneBase.elm") is false (lines 303, 353, 416, 458).
SceneBaseMissing(d) == ~d.base

\* os.path.exists(".../ComponentBase.elm") is false (lines 311, 345, 403, 446).
ComponentBaseMissing(d) == ~d.cbase

\* os.path.exists of the layer directory; a layer may be named as the
\* component directory is.
LayerExists(d, l) == IF l = Components THEN d.cdir ELSE l \in d.layers

\* The order of the two probes: add_component on a sceneproto looks at
\* SceneBase.elm first, the three other branches at ComponentBase.elm first.
AfterCompDir == IF cmd.is_proto THEN "scene_base" ELSE "comp_base"
AfterSceneBase ==
    IF cmd.op = "component" /\ cmd.is_proto THEN "comp_base" ELSE "comp_dump"
AfterCompBase ==
    IF cmd.op = "component" /\ cmd.is_proto THEN "comp_dump" ELSE "scene_base"

\* The scenes and sceneprotos a command may name.
Targets ==
    {[scene |-> sc, is_proto |-> FALSE] : sc \in SceneNames}
    \cup {[scene |-> sc, is_proto |-> TRUE] : sc \in ProtoNames}

ComponentCmds ==
    {[NoCmd EXCEPT !.op = "component", !.name = n, !.scene = t.scene,
                   !.is_proto = t.is_proto] :
        n \in CompNames, t \in Targets}

LayerCmds ==
    {[NoCmd EXCEPT !.op = "layer", !.name = l, !.scene = t.scene,
                   !.is_proto = t.is_proto, !.has_component = hc] :
        l \in LayerNames, t \in Targets, hc \in BOOLEAN}

\* The checks of add_component left out.
CheckComponentSkipped ==
    /\ pc = "add_component"
    /\ Goto("cdir")
    /\ UNCHANGED <<other, git, env, json, config, fsvars, cmd>>

\* add_component, lines 293-297 and 334-338: the two checks.
CheckComponent ==
    /\ pc = "add_component"
    /\ IF ~Has(TheMap, cmd.scene)
       THEN Raise(IF cmd.is_proto THEN "Sceneproto doesn't exist."
                                  ELSE "Scene doesn't exist.")
       ELSE IF TheDir.cdir /\ cmd.name \in TheDir.comps
       THEN Raise("Component already exists.")
       ELSE Goto("cdir")
    /\ UNCHANGED <<other, git, env, json, config, fsvars, cmd>>

\* add_component, lines 299-300 and 340-341: os.mkdir of the component
\* directory when it is missing.
MakeCompDir ==
    /\ pc = "cdir"
    /\ IF TheDir.cdir
       THEN Goto(AfterCompDir) /\ UNCHANGED <<sdirs, pdirs>>
       ELSE IF ~TheDir.exists
       THEN Raise("FileNotFoundError") /\ UNCHANGED <<sdirs, pdirs>>
       ELSE SetDir([TheDir EXCEPT !.cdir = TRUE]) /\ Goto(AfterCompDir)
    /\ UNCHANGED <<other, git, env, json, config, roots, allScenes, cmd>>

\* add_layer, lines 399-402 and 442-445: the two checks.
CheckLayer ==
    /\ pc = "add_layer"
    /\ IF ~Has(TheMap, cmd.scene)
       THEN Raise("Scene doesn't exist.")
       ELSE IF LayerExists(TheDir, cmd.name)
       THEN Raise("Layer already exists.")
       ELSE Goto("comp_base")
    /\ UNCHANGED <<other, git, env, json, config, fsvars, cmd>>

\* SceneBase.elm is generated when the probe finds none.
MaterializeSceneBase ==
    /\ pc = "scene_base"
    /\ IF ~SceneBaseMissing(TheDir)
       THEN Goto(AfterSceneBase) /\ UNCHANGED <<sdirs, pdirs, git>>
       ELSE IF ~TheDir.exists
       THEN Raise("FileNotFoundError") /\ UNCHANGED <<sdirs, pdirs, git>>
       ELSE /\ SetDir(WriteSceneBase(TheDir))
            /\ GenerateInDir
            /\ Goto(AfterSceneBase)
    /\ UNCHANGED <<other, env, json, config, roots, allScenes, cmd>>

\* ComponentBase.elm is generated when the probe finds none; add_layer looks
\* for it only with has_component, and makes the component directory first.
MaterializeComponentBase ==
    /\ pc = "comp_base"
    /\ IF cmd.op = "layer" /\ ~cmd.has_component
       THEN Goto(AfterCompBase) /\ UNCHANGED <<sdirs, pdirs, git>>
       ELSE IF ~ComponentBaseMissing(TheDir)
       THEN Goto(AfterCompBase) /\ UNCHANGED <<sdirs, pdirs, git>>
       ELSE /\ SetDir(WriteComponentBase(
                         IF cmd.op = "layer" THEN MakeDirs(TheDir) ELSE TheDir))
            /\ GenerateInDir
            /\ Goto(AfterCompBase)
    /\ UNCHANGED <<other, env, json, config, roots, allScenes, cmd>>

\* The dump_config of add_component and add_layer (lines 319, 361, 423, 465).
ComponentDump ==
    /\ pc = "comp_dump"
    /\ DumpConfig(config)
    /\ DumpConfigGit(config)
    /\ Goto("make")
    /\ UNCHANGED <<other, env, config, fsvars, cmd>>

\* add_component, lines 320-328 and 362-370: os.makedirs and Model.elm.
MakeComponent ==
    /\ pc = "make"
    /\ cmd.op = "component"
    /\ SetDir([MakeDirs(TheDir) EXCEPT !.comps = @ \cup {cmd.name}])
    /\ GenerateInDir
    /\ Goto("finish")
    /\ UNCHANGED <<other, env, json, config, roots, allScenes, cmd>>

\* add_layer, lines 424-439 and 466-481: os.mkdir and the layer's files.
MakeLayer ==
    /\ pc = "make"
    /\ cmd.op = "layer"
    /\ IF LayerExists(TheDir, cmd.name)
       THEN Raise("FileExistsError") /\ UNCHANGED <<sdirs, pdirs, git>>
       ELSE IF ~TheDir.exists
       THEN Raise("FileNotFoundError") /\ UNCHANGED <<sdirs, pdirs, git>>
       ELSE /\ SetDir(IF cmd.name = Components
                      THEN [TheDir EXCEPT !.cdir = TRUE]
                      ELSE [TheDir EXCEPT !.layers = @ \cup {cmd.name}])
            /\ GenerateInDir
            /\ Goto("finish")
    /\ UNCHANGED <<other, env, json, config, roots, allScenes, cmd>>

\* The developer changes a generated SceneBase.elm.
EditSceneBase ==
    /\ pc = "idle"
    /\ \/ \E n \in SceneNames :
             /\ sdirs[n].base /\ ~sdirs[n].baseEdited
             /\ sdirs' = [sdirs EXCEPT ![n].baseEdited = TRUE]
             /\ UNCHANGED pdirs
             /\ git' = InRepo(WorkTreeWrite(git, DirPath(FALSE, n)))
       \/ \E n \in ProtoNames :
             /\ pdirs[n].base /\ ~pdirs[n].baseEdited
             /\ pdirs' = [pdirs EXCEPT ![n].baseEdited = TRUE]
             /\ UNCHANGED sdirs
             /\ git' = InRepo(WorkTreeWrite(git, DirPath(TRUE, n)))
    /\ UNCHANGED <<other, env, json, config, roots, allScenes, cmd, pc, idx, exc>>

\* The developer changes a generated ComponentBase.elm.
EditComponentBase ==
    /\ pc = "idle"
    /\ \/ \E n \in SceneNames :
             /\ sdirs[n].cbase /\ ~sdirs[n].cbaseEdited
             /\ sdirs' = [sdirs EXCEPT ![n].cbaseEdited = TRUE]
             /\ UNCHANGED pdirs
             /\ git' = InRepo(WorkTreeWrite(git, DirPath(FALSE, n)))
       \/ \E n \in ProtoNames :
             /\ pdirs[n].cbase /\ ~pdirs[n].cbaseEdited
             /\ pdirs' = [pdirs EXCEPT ![n].cbaseEdited = TRUE]
             /\ UNCHANGED sdirs
             /\ git' = InRepo(WorkTreeWrite(git, DirPath(TRUE, n)))
    /\ UNCHANGED <<other, env, json, config, roots, allScenes, cmd, pc, idx, exc>>

\* The project after scene Boss, raw or layered, and sceneproto Boss, raw or
\* layered, were added; a raw scene has no SceneBase.elm yet.
InitComp ==
    /\ env = [git |-> FALSE, checkout |-> TRUE]
    /\ \E r \in BOOLEAN, rp \in BOOLEAN :
          /\ json = [InitObject(API_VERSION, FALSE) EXCEPT
                        !.scenes = <<SceneEntry(Boss, r, NoProto)>>,
                        !.sceneprotos = <<ProtoEntry(Boss, rp, <<>>)>>]
          /\ sdirs = [n \in SceneNames |->
                        IF n = Boss THEN SceneFiles(EmptyDir, r, FALSE, FALSE)
                                    ELSE NoDir]
          /\ pdirs = [n \in ProtoNames |->
                        IF n = Boss THEN SceneFiles(EmptyDir, rp, TRUE, FALSE)
                                    ELSE NoDir]
    /\ config = NoJson
    /\ roots = [scenes |-> TRUE, protos |-> TRUE]
    /\ allScenes = [exists |-> TRUE, list |-> <<Boss>>]
    /\ cmd = NoCmd
    /\ pc = "idle"
    /\ idx = 0
    /\ exc = NoExc
    /\ tpl = TemplateClone
    /\ gcs = NoGcs
    /\ upd = NoUpdater
    /\ arg = NoArg
    /\ git = NoRepo

NextComp ==
    \/ \E c \in ComponentCmds \cup LayerCmds : Begin(c)
    \/ Confirm
    \/ Abort
    \/ CheckComponent
    \/ MakeCompDir
    \/ CheckLayer
    \/ MaterializeSceneBase
    \/ MaterializeComponentBase
    \/ ComponentDump
    \/ MakeComponent
    \/ MakeLayer
    \/ Finish
    \/ Exit
    \/ EditSceneBase
    \/ EditComponentBase

SpecComp == InitComp /\ [][NextComp]_vars

(***************************************************************************)
(* The Token Substitution Engine: class Updater, which messenger.py        *)
(* imports from .updater (line 10) and calls as Updater(f, t).rep(v1)      *)
(* .rep(v2)...; its behaviour is the one spec.md 4.1 gives.  A text is a   *)
(* sequence of tokens, some of which are markers; f are the template files *)
(* and t the destination files, count is the number of rep calls so far,   *)
(* values their arguments.                                                 *)
(***************************************************************************)
MaxFiles == 2
MaxText == 2
MaxApply == 4

MarkerA == "$A"
MarkerB == "$B"
Markers == {MarkerA, MarkerB}
Literal == "t"
Values == {"x", "y", "z"}

NoFile == [exists |-> FALSE, text |-> <<>>]
File(text) == [exists |-> TRUE, text |-> text]

Templates ==
    {NoFile}
    \cup {File(t) : t \in UNION {[1..k -> Markers \cup {Literal}] : k \in 0..MaxText}}

\* The text of the files, one after the other in list order.
RECURSIVE Combined(_)
Combined(files) ==
    IF files = <<>> THEN <<>> ELSE Head(files).text \o Combined(Tail(files))

MarkersOf(text) == SelectSeq(text, LAMBDA tok : tok \in Markers)

\* The next unresolved marker: the first one left in the combined text.
NextMarker(files) ==
    LET ms == MarkersOf(Combined(files))
    IN  IF ms = <<>> THEN Literal ELSE ms[1]

Replace(text, m, v) ==
    [i \in DOMAIN text |-> IF text[i] = m /\ m \in Markers THEN v ELSE text[i]]

\* Only the occurrence found is replaced: the first one of the combined text.
ReplaceNextOnly(files, m, v) ==
    LET holds(i) == \E j \in DOMAIN files[i].text : files[i].text[j] = m
        first(t) == CHOOSE j \in DOMAIN t : t[j] = m /\ \A h \in 1..(j - 1) : t[h] # m
    IN  [i \in DOMAIN files |->
            IF m \in Markers /\ holds(i) /\ \A h \in 1..(i - 1) : ~holds(h)
            THEN [files[i] EXCEPT !.text =
                     [@ EXCEPT ![first(files[i].text)] = v]]
            ELSE files[i]]

\* Every occurrence of the marker, in every destination, becomes the value.
ReplaceEvery(files, m, v) ==
    [i \in DOMAIN files |-> [files[i] EXCEPT !.text = Replace(@, m, v)]]

\* The templates are copied at every call.
EveryCall(u) == TRUE

\* The templates are copied at the first call only.
FirstCall(u) == u.count = 0

\* apply next token: one call of rep.
rep(u, v) ==
    IF FirstCall(u) /\ \E i \in DOMAIN u.f : ~u.f[i].exists
    THEN [u EXCEPT !.exc = "FileNotFoundError"]
    ELSE LET d == IF FirstCall(u) THEN u.f ELSE u.t
         IN  [u EXCEPT !.t = ReplaceEvery(d, NextMarker(d), v),
                       !.count = @ + 1,
                       !.values = Append(@, v)]

\* Updater(f, t): nothing is copied yet.
Updater(f) ==
    [f |-> f, t |-> [i \in DOMAIN f |-> NoFile], count |-> 0,
     values |-> <<>>, exc |-> NoExc]

InitUpd ==
    /\ env = [git |-> FALSE, checkout |-> TRUE]
    /\ json = InitObject(API_VERSION, FALSE)
    /\ InitFiles
    /\ git = NoRepo
    /\ arg = NoArg
    /\ \E f \in [1..MaxFiles -> Templates] : upd = Updater(f)

Apply ==
    /\ upd.exc = NoExc
    /\ upd.count < MaxApply
    /\ \E v \in Values : upd' = rep(upd, v)
    /\ UNCHANGED <<env, json, config, fsvars, cmd, pc, idx, exc, git, tpl, gcs,
                   arg>>

NextUpd == Apply

SpecUpd == InitUpd /\ [][NextUpd]_vars

(***************************************************************************)
(* check_name (lines 519-526), which every command applies to the names it *)
(* is given.  A name is a sequence of characters.                          *)
(***************************************************************************)
MaxName == 3
MaxCalls == 2

Chars == {"a", "b", "A", "B", "1"}

\* str.islower() of one character.
islower(c) == c \in {"a", "b"}

\* str.lower() of one character.
lower(c) == CASE c = "A" -> "a" [] c = "B" -> "b" [] OTHER -> c

\* str.capitalize() of one character.
capitalize(c) == CASE c = "a" -> "A" [] c = "b" -> "B" [] OTHER -> c

\* name.capitalize() in place of lines 523-524: the rest is lower-cased.
check_name_whole(name) ==
    [i \in DOMAIN name |-> IF i = 1 THEN capitalize(name[i]) ELSE lower(name[i])]

check_name(name) ==
    IF islower(name[1]) THEN <<capitalize(name[1])>> \o Tail(name) ELSE name

Names == UNION {[1..k -> Chars] : k \in 1..MaxName}

InitName ==
    /\ env = [git |-> FALSE, checkout |-> TRUE]
    /\ json = InitObject(API_VERSION, FALSE)
    /\ InitFiles
    /\ git = NoRepo
    /\ upd = NoUpdater
    /\ \E n \in Names : arg = [typed |-> n, name |-> n, calls |-> 0]

CheckName ==
    /\ arg.calls < MaxCalls
    /\ arg' = [arg EXCEPT !.name = check_name(@), !.calls = @ + 1]
    /\ UNCHANGED <<env, json, config, fsvars, cmd, pc, idx, exc, git, tpl, gcs,
                   upd>>

NextName == CheckName

SpecName == InitName /\ [][NextName]_vars

(***************************************************************************)
(* update with any answers of git inside .messenger: the checkout may be   *)
(* no repository, have no remote origin, sit on no tag, follow no branch.  *)
(***************************************************************************)
TplStates ==
    {[inside |-> Failed, url |-> Failed, tag |-> Failed, upstream |-> Failed]}
    \cup {[inside |-> Ok(<<"t", "r", "u", "e">>), url |-> u, tag |-> t,
           upstream |-> b] :
            u \in {Failed, Ok(Url)},
            t \in {Failed, Ok(TagV1)},
            b \in {Failed} \cup {Ok(OriginSlash \o br) : br \in Branches}}

TplSceneDirs ==
    {NoDir,
     WriteModel(EmptyDir, SceneModelTemplate(FALSE)),
     WriteModel(EmptyDir, LevelTemplate(FALSE, Boss))}

TplProtoDirs == {NoDir, WriteModel(EmptyDir, SceneModelTemplate(FALSE))}

InitTpl ==
    /\ env = [git |-> FALSE, checkout |-> TRUE]
    /\ json = InitObject(API_VERSION, FALSE)
    /\ config = NoJson
    /\ roots = [scenes |-> TRUE, protos |-> TRUE]
    /\ sdirs \in [SceneNames -> TplSceneDirs]
    /\ pdirs \in [ProtoNames -> TplProtoDirs]
    /\ allScenes = NoAllScenes
    /\ cmd = NoCmd
    /\ pc = "idle"
    /\ idx = 0
    /\ exc = NoExc
    /\ tpl \in TplStates
    /\ gcs = NoGcs
    /\ upd = NoUpdater
    /\ arg = NoArg
    /\ git = NoRepo

SpecTpl == InitTpl /\ [][NextFS]_vars

(***************************************************************************)
(* gc: Messenger.add_gc, which looks at the directory tree only.  The      *)
(* component and layer commands with it, on the project of InitComp.       *)
(***************************************************************************)
GcCmds == {[NoCmd EXCEPT !.op = "gc", !.name = n] : n \in GcNames}

\* add_gc, lines 274-276: the directories are made when missing.
MakeGcDirs ==
    /\ pc = "add_gc"
    /\ gcs' = [root |-> TRUE,
               dirs |-> [gcs.dirs EXCEPT ![cmd.name] =
                            IF @ = "absent" THEN "empty" ELSE @]]
    /\ Goto("gc_model")
    /\ UNCHANGED <<tpl, upd, arg, git, env, json, config, fsvars, cmd>>

\* add_gc, lines 277-285: Model.elm is generated unless it is there.
MakeGc ==
    /\ pc = "gc_model"
    /\ IF gcs.dirs[cmd.name] = "made"
       THEN Raise("Global component already exists.") /\ UNCHANGED <<gcs, git>>
       ELSE /\ gcs' = [gcs EXCEPT !.dirs[cmd.name] = "made"]
            /\ git' = InRepo(Generated(git, GcPath(cmd.name),
                                       config.auto_commit))
            /\ Goto("finish")
    /\ UNCHANGED <<tpl, upd, arg, env, json, config, fsvars, cmd>>

NextTopo ==
    \/ \E c \in ComponentCmds \cup LayerCmds \cup GcCmds : Begin(c)
    \/ Confirm
    \/ Abort
    \/ CheckComponent
    \/ MakeCompDir
    \/ CheckLayer
    \/ MaterializeSceneBase
    \/ MaterializeComponentBase
    \/ ComponentDump
    \/ MakeComponent
    \/ MakeLayer
    \/ MakeGcDirs
    \/ MakeGc
    \/ Finish
    \/ Exit

SpecTopo == InitComp /\ [][NextTopo]_vars

(***************************************************************************)
(* A fresh project on which every command runs to its end: scene, level    *)
(* and remove --rm, none of them interrupted.  A command that raises ends  *)
(* the behaviour.                                                          *)
(***************************************************************************)
OkCmds ==
    SceneCmds(SceneNames, BOOLEAN, BOOLEAN)
    \cup ProtoCmds(ProtoNames, BOOLEAN, BOOLEAN)
    \cup LevelCmds
    \cup {c \in RemoveCmds : c.remove /\ c.type # "other"}

InitOk ==
    /\ env = [git |-> FALSE, checkout |-> TRUE]
    /\ json = InitObject(API_VERSION, FALSE)
    /\ InitFiles
    /\ git = NoRepo
    /\ upd = NoUpdater
    /\ arg = NoArg

\* The handler has returned; the process ends.
ExitDone == pc = "done" /\ Exit

NextOk ==
    \/ \E c \in OkCmds : Begin(c)
    \/ Confirm
    \/ AddScene
    \/ AddLevel
    \/ Mkdir
    \/ AppendLevel
    \/ Generate
    \/ UpdateScenes
    \/ Finish
    \/ ExitDone
    \/ RemoveScene
    \/ RmTree
    \/ RemoveProto
    \/ RemoveLevel
    \/ PopProto
    \/ RemoveDump

SpecOk == InitOk /\ [][NextOk]_vars

(***************************************************************************)
(* An auto-commit project inside a git work tree.  The developer starts a  *)
(* command on a clean tree only, and commits whatever a command has left   *)
(* behind before running the next one.                                     *)
(***************************************************************************)
GitCmds ==
    SceneCmds(SceneNames, {FALSE}, {FALSE})
    \cup ProtoCmds(ProtoNames, {FALSE}, {FALSE})
    \cup LevelCmds \cup RemoveCmds \cup UpdateCmds \cup GcCmds

InitGit ==
    /\ env = [git |-> TRUE, checkout |-> TRUE]
    /\ json = InitObject(API_VERSION, TRUE)
    /\ InitFiles
    /\ upd = NoUpdater
    /\ arg = NoArg
    /\ git = Committed

\* The developer: git add -A, git commit.
DevCommit ==
    /\ pc = "idle"
    /\ env.git
    /\ ~TreeClean(git)
    /\ git' = Committed
    /\ UNCHANGED <<other, env, json, config, fsvars, cmd, pc, idx, exc>>

NextGit ==
    \/ \E c \in GitCmds : TreeClean(git) /\ Begin(c)
    \/ DevCommit
    \/ Confirm
    \/ AddScene
    \/ AddLevel
    \/ Mkdir
    \/ AppendLevel
    \/ Generate
    \/ UpdateScenes
    \/ Update
    \/ RemoveScene
    \/ RmTree
    \/ RemoveProto
    \/ RemoveLevel
    \/ PopProto
    \/ RemoveDump
    \/ MakeGcDirs
    \/ MakeGc
    \/ Finish
    \/ Exit

SpecGit == InitGit /\ [][NextGit]_vars

TypeOK ==
    /\ pc \in {"idle", "prompt", "add_scene", "add_level", "mkdir", "append", "gen",
               "update_scenes", "finish", "update_config", "remove", "rmtree",
               "rm_levels", "pop_proto", "dump", "raised", "exited", "done",
               "add_component", "add_layer", "cdir", "scene_base", "comp_base",
               "comp_dump", "make", "add_gc", "gc_model"}
    /\ (pc = "idle") => (cmd = NoCmd /\ config = NoJson)
    /\ (pc = "raised") = (exc # NoExc)

(***************************************************************************)
(* The claims.                                                             *)
(***************************************************************************)

\* Bidirectional consistency of a manifest: every scene with a sceneproto
\* reference names a key of sceneprotos whose levels hold the scene's name.
Linked(m, e) ==
    e.sceneproto # NoProto =>
        /\ Has(m.sceneprotos, e.sceneproto)
        /\ InList(Get(m.sceneprotos, e.sceneproto).levels, e.name)

Consistent(m) == \A i \in DOMAIN m.scenes : Linked(m, m.scenes[i])

ConsistentBut(m, name) ==
    \A i \in DOMAIN m.scenes : m.scenes[i].name # name => Linked(m, m.scenes[i])

\* C1 as stated: between two commands the persisted manifest is bidirectionally
\* consistent, whatever commands ran before and however they ended.
C1_ConsistentAtRest == pc = "idle" => Consistent(json)

\* C1, amended: every write of messenger.json other than add_level's first one
\* keeps a bidirectionally consistent manifest consistent, and add_level's
\* second write makes the manifest consistent again when the new level was the
\* only scene out of step.
C1_ConsistencyKept ==
    [][/\ (pc # "add_level" /\ Consistent(json)) => Consistent(json')
       /\ (pc = "append" /\ pc' = "gen" /\ ConsistentBut(json, cmd.name))
              => Consistent(json')]_vars

C1_Witness ==
    /\ pc = "gen"
    /\ cmd.op = "level"
    /\ Consistent(json)
    /\ Has(json.scenes, cmd.name)
    /\ Get(json.scenes, cmd.name).sceneproto = cmd.sceneproto

C3_RefusedWithLevels ==
    [][(/\ pc = "remove"
        /\ cmd.type = "sceneproto"
        /\ ~cmd.remove_levels
        /\ Has(json.sceneprotos, cmd.name)
        /\ \E l \in SceneNames :
              /\ InList(Get(json.sceneprotos, cmd.name).levels, l)
              /\ Has(json.scenes, l)
        /\ pc' # "exited")
          => (/\ pc' = "raised"
              /\ config = json
              /\ UNCHANGED <<json, config, fsvars>>)]_vars

C3_Witness ==
    /\ pc = "raised"
    /\ cmd.type = "sceneproto"
    /\ ~cmd.remove_levels
    /\ config = json
    /\ Has(json.sceneprotos, cmd.name)
    /\ Len(Get(json.sceneprotos, cmd.name).levels) > 0
    /\ Has(json.scenes, Get(json.sceneprotos, cmd.name).levels[1])

\* C4: add_scene of a name that is already a scene raises, and messenger.json
\* stays as the first add_scene left it.
C4_SecondAddSceneRaises ==
    [][(/\ pc = "add_scene"
        /\ ~cmd.is_proto
        /\ Has(json.scenes, cmd.name)
        /\ pc' # "exited")
          => (pc' = "raised" /\ UNCHANGED <<json, config, sdirs, pdirs>>)]_vars

C4_Witness ==
    /\ pc = "raised"
    /\ cmd.op = "scene"
    /\ ~cmd.is_proto
    /\ Has(json.scenes, cmd.name)
    /\ sdirs[cmd.name].model
    /\ InList(allScenes.list, cmd.name)

\* The project after add_sceneproto("Boss", raw=false) and then
\* add_level("Boss1", "Boss"), started on the empty project.
ScenarioState ==
    /\ json.scenes = <<SceneEntry(Boss1, FALSE, Boss)>>
    /\ json.sceneprotos = <<ProtoEntry(Boss, FALSE, <<Boss1>>)>>
    /\ roots = [scenes |-> TRUE, protos |-> TRUE]
    /\ allScenes = [exists |-> TRUE, list |-> <<Boss1>>]
    /\ pdirs[Boss] = SceneFiles(EmptyDir, FALSE, TRUE, FALSE)
    /\ sdirs[Boss1] = LevelFiles(EmptyDir, FALSE, Boss)
    /\ \A n \in ProtoNames \ {Boss} : pdirs[n] = NoDir
    /\ \A n \in SceneNames \ {Boss1} : sdirs[n] = NoDir

ScenarioResult(m) ==
    /\ Has(m.sceneprotos, Boss)
    /\ Get(m.sceneprotos, Boss).levels = <<Boss1>>
    /\ Has(m.scenes, Boss1)
    /\ Get(m.scenes, Boss1).sceneproto = Boss

\* C5: update_config run on the project of the scenario completes and writes
\* a manifest with sceneprotos["Boss"].levels == ["Boss1"] and
\* scenes["Boss1"].sceneproto == "Boss".
C5_ScenarioReconciled ==
    [][(pc = "update_config" /\ ScenarioState /\ pc' # "exited")
          => (pc' = "finish" /\ ScenarioResult(json'))]_vars

C5_Witness ==
    /\ pc = "finish"
    /\ cmd.op = "update"
    /\ ScenarioState
    /\ ScenarioResult(json)

\* C6: when update_config has written the manifest, a second update_config on
\* the tree as the first one left it, started from the manifest just written,
\* completes and writes that same manifest again.
C6_Idempotent ==
    [][(pc = "update_config" /\ pc' = "finish")
          => (/\ config = json
              /\ ~UpdateConfig(config).err
              /\ Manifest(UpdateConfig(config)) = json)']_vars

C6_Witness ==
    /\ pc = "finish"
    /\ cmd.op = "update"
    /\ Len(json.scenes) = MaxScene
    /\ \E i \in DOMAIN json.sceneprotos : Len(json.sceneprotos[i].levels) > 0
    /\ \E i \in DOMAIN json.scenes : json.scenes[i].sceneproto = NoProto

\* C7: add_level(name, P) with P not a key of sceneprotos, or with name
\* already a key of scenes, raises; the manifest in memory and on disk stays
\* as loaded and no directory is made or changed for name.
C7_LevelRejectedUntouched ==
    [][(/\ pc = "add_level"
        /\ \/ ~Has(json.sceneprotos, cmd.sceneproto)
           \/ Has(json.scenes, cmd.name)
        /\ pc' # "exited")
          => (/\ pc' = "raised"
              /\ config = json
              /\ UNCHANGED <<json, config, sdirs, pdirs>>)]_vars

C7_Witness ==
    /\ pc = "raised"
    /\ cmd.op = "level"
    /\ exc = "Level or scene already exists."
    /\ Has(json.sceneprotos, cmd.sceneproto)
    /\ Has(json.scenes, cmd.name)
    /\ config = json

\* The levels of prototype p in manifest m.
LevelsOf(m, p) == Get(m.sceneprotos, p).levels

\* How often name n occurs in list l.
Count(l, n) == Cardinality({i \in DOMAIN l : l[i] = n})

\* C8: add_level(name, P) that completes has added scenes[name] with
\* sceneproto P and the raw of sceneprotos[P] at its first write, has appended
\* name, not there before, at the end of sceneprotos[P].levels at its second
\* write, and has changed nothing else of the manifest at any step.
C8_LevelAdded ==
    [][cmd.op = "level" =>
        /\ (pc = "add_level" /\ pc' = "mkdir") =>
              /\ config = json
              /\ config'.scenes =
                    Append(config.scenes,
                           SceneEntry(cmd.name,
                                      Get(config.sceneprotos, cmd.sceneproto).raw,
                                      cmd.sceneproto))
              /\ config'.sceneprotos = config.sceneprotos
              /\ json' = config'
        /\ (pc = "append" /\ pc' = "gen") =>
              /\ config = json
              /\ config'.scenes = config.scenes
              /\ ~InList(LevelsOf(config, cmd.sceneproto), cmd.name)
              /\ DOMAIN config'.sceneprotos = DOMAIN config.sceneprotos
              /\ \A i \in DOMAIN config.sceneprotos :
                    config'.sceneprotos[i] =
                       IF config.sceneprotos[i].name = cmd.sceneproto
                       THEN [config.sceneprotos[i] EXCEPT
                                !.levels = Append(@, cmd.name)]
                       ELSE config.sceneprotos[i]
              /\ json' = config'
        /\ ~(pc = "add_level" /\ pc' = "mkdir") /\ ~(pc = "append" /\ pc' = "gen")
              => (UNCHANGED json /\ (pc' # "idle" => UNCHANGED config))
        /\ pc' = "done" =>
              /\ Get(json'.scenes, cmd.name).sceneproto = cmd.sceneproto
              /\ Get(json'.scenes, cmd.name).raw =
                    Get(json'.sceneprotos, cmd.sceneproto).raw
              /\ Count(LevelsOf(json', cmd.sceneproto), cmd.name) = 1
              /\ LevelsOf(json', cmd.sceneproto)
                    [Len(LevelsOf(json', cmd.sceneproto))] = cmd.name]_vars

C8_Witness ==
    /\ pc = "done"
    /\ cmd.op = "level"
    /\ Get(json.sceneprotos, cmd.sceneproto).raw
    /\ Get(json.scenes, cmd.name).raw
    /\ Len(LevelsOf(json, cmd.sceneproto)) = 2
    /\ LevelsOf(json, cmd.sceneproto)[2] = cmd.name
    /\ Len(json.scenes) = 2

\* C9: add_level writes messenger.json twice and nowhere else: first with the
\* scene entry and without the name in the prototype's levels, then, with the
\* scene directory made, with the name in the levels; a failed os.mkdir
\* between the two leaves the first write on disk.
C9_TwoWritesInOrder ==
    [][cmd.op = "level" =>
        /\ (pc = "add_level" /\ pc' = "mkdir") =>
              /\ json' # json
              /\ ~Has(json.scenes, cmd.name)
              /\ Has(json'.scenes, cmd.name)
              /\ Get(json'.scenes, cmd.name).sceneproto = cmd.sceneproto
              /\ ~InList(LevelsOf(json', cmd.sceneproto), cmd.name)
        /\ (pc = "append" /\ pc' = "gen") =>
              /\ json' # json
              /\ sdirs[cmd.name].exists
              /\ Has(json.scenes, cmd.name)
              /\ ~InList(LevelsOf(json, cmd.sceneproto), cmd.name)
              /\ InList(LevelsOf(json', cmd.sceneproto), cmd.name)
        /\ pc' = "append" => (pc = "mkdir" /\ sdirs'[cmd.name].exists
                                /\ ~sdirs[cmd.name].exists)
        /\ json' # json => \/ (pc = "add_level" /\ pc' = "mkdir")
                           \/ (pc = "append" /\ pc' = "gen")
        /\ (pc = "mkdir" /\ pc' = "raised") =>
              /\ exc' = "FileExistsError"
              /\ json' = json
              /\ Has(json'.scenes, cmd.name)
              /\ Get(json'.scenes, cmd.name).sceneproto = cmd.sceneproto
              /\ ~InList(LevelsOf(json', cmd.sceneproto), cmd.name)]_vars

C9_Witness ==
    /\ pc = "raised"
    /\ cmd.op = "level"
    /\ exc = "FileExistsError"
    /\ Has(json.scenes, cmd.name)
    /\ Get(json.scenes, cmd.name).sceneproto = cmd.sceneproto
    /\ ~InList(LevelsOf(json, cmd.sceneproto), cmd.name)

\* C10 as stated: when remove(sceneproto, P) has completed, P is not a key of
\* sceneprotos and no scene of the manifest refers to P.
C10_NoReferenceLeft ==
    (pc = "done" /\ cmd.op = "remove" /\ cmd.type = "sceneproto") =>
        /\ ~Has(json.sceneprotos, cmd.name)
        /\ \A i \in DOMAIN json.scenes : json.scenes[i].sceneproto # cmd.name

\* List l without the entries named n, the others in their order.
Without(l, n) == SelectSeq(l, LAMBDA e : e.name # n)

\* List of names l without n, the others in their order.
NamesWithout(l, n) == SelectSeq(l, LAMBDA x : x # n)

C12_ProtoChecksScenes ==
    [][(/\ pc = "add_scene"
        /\ cmd.is_proto
        /\ Has(json.scenes, cmd.name)
        /\ pc' # "exited")
          => (pc' = "raised" /\ UNCHANGED <<json, config>>)]_vars

\* C13 as stated: no name is a key of scenes and a key of sceneprotos of the
\* persisted manifest.
C13_NamesUnique ==
    \A n \in SceneNames \cap ProtoNames :
        ~(Has(json.scenes, n) /\ Has(json.sceneprotos, n))

\* C14 as stated: update started on a manifest whose recorded version is not
\* the tool's gets to the reconciler, and when it has completed the persisted
\* manifest carries API_VERSION.
C14_UpdateRecovers ==
    [][/\ (/\ pc = "idle"
           /\ json.exists
           /\ json.version = OldVersion
           /\ cmd'.op = "update") => pc' = "prompt"
       /\ (cmd.op = "update" /\ pc' = "done") => json'.version = API_VERSION]_vars

\* C15 as stated: whenever a command changes the generated tree, every change
\* it has made to the manifest in memory is already in messenger.json.
C15_PersistedBeforeFiles ==
    [][fsvars' # fsvars => config = json]_vars

\* C15, amended: scene and level write each change of the manifest at the
\* step that makes it, before their next change to the tree; remove writes
\* once, at its end, after AllScenes.elm was regenerated and the directories
\* deleted; update writes once, when update_config has completed.
C15_PersistenceByCommand ==
    [][/\ (cmd.op \in {"scene", "level"} /\ fsvars' # fsvars) => config = json
       /\ (cmd.op \in {"scene", "level"} /\ config' # config /\ pc' # "idle")
             => json' = config'
       /\ (cmd.op = "remove" /\ json' # json)
             => (pc = "dump" /\ pc' = "finish" /\ json' = config)
       /\ (cmd.op = "remove" /\ fsvars' # fsvars) => pc' # "finish"
       /\ (cmd.op = "update" /\ json' # json)
             => (pc = "update_config" /\ pc' = "finish" /\ json' = config')]_vars

C15_Witness ==
    /\ pc = "dump"
    /\ cmd.op = "remove"
    /\ cmd.type = "sceneproto"
    /\ cmd.remove
    /\ cmd.remove_levels
    /\ config # json
    /\ Len(json.scenes) = 2
    /\ config.scenes = <<>>
    /\ \A n \in SceneNames : ~sdirs[n].exists
    /\ ~pdirs[cmd.name].exists

\* C16 as stated: until the confirmation prompt has returned, a subcommand
\* changes neither messenger.json, nor the working tree, nor .messenger.
C16_NothingBeforePrompt ==
    [][(pc \in {"idle", "prompt"}) => UNCHANGED <<json, fsvars, env>>]_vars

\* The subdirectories of a directory that hold a Model.elm.
WithModel(dirs) == {n \in DOMAIN dirs : dirs[n].exists /\ dirs[n].isdir /\ dirs[n].model}

\* C17: a reconcile that completes writes scenes and sceneprotos whose keys
\* are the subdirectories of src/Scenes and of src/SceneProtos that hold a
\* Model.elm, and writes the same two maps from any other recorded manifest
\* on the same tree.
C17_TreeOnly ==
    [][(pc = "update_config" /\ pc' = "finish")
          => /\ {json'.scenes[i].name : i \in DOMAIN json'.scenes} = WithModel(sdirs)
             /\ Len(json'.scenes) = Cardinality(WithModel(sdirs))
             /\ {json'.sceneprotos[i].name : i \in DOMAIN json'.sceneprotos}
                   = WithModel(pdirs)
             /\ Len(json'.sceneprotos) = Cardinality(WithModel(pdirs))
             /\ \A m \in RecordedManifests :
                   /\ ~UpdateConfig(m).err
                   /\ UpdateConfig(m).scenes = json'.scenes
                   /\ UpdateConfig(m).sceneprotos = json'.sceneprotos]_vars

C17_Witness ==
    /\ pc = "finish"
    /\ cmd.op = "update"
    /\ sdirs[1] = PlainFile
    /\ sdirs[2].model
    /\ pdirs[Boss] = EmptyDir
    /\ Len(json.scenes) = 1
    /\ json.sceneprotos = <<>>

\* The scenes whose Model.elm has the level marker and imports prototype p.
ReferringTo(p) ==
    {n \in WithModel(sdirs) : sdirs[n].lvl /\ sdirs[n].imp = p}

\* C18: a reconcile that completes gives every sceneproto the levels list of
\* the scenes whose Model.elm refers back to it, each once, in ascending
\* order of directory name.
C18_LevelsSorted ==
    [][(pc = "update_config" /\ pc' = "finish")
          => \A i \in DOMAIN json'.sceneprotos :
                LET e == json'.sceneprotos[i]
                IN  /\ {e.levels[k] : k \in DOMAIN e.levels} = ReferringTo(e.name)
                    /\ Len(e.levels) = Cardinality(ReferringTo(e.name))
                    /\ \A k \in DOMAIN e.levels, l \in DOMAIN e.levels :
                          k < l => e.levels[k] < e.levels[l]]_vars

C18_Witness ==
    /\ pc = "finish"
    /\ cmd.op = "update"
    /\ ReferringTo(Boss) = SceneNames
    /\ Has(json.sceneprotos, Boss)
    /\ LevelsOf(json, Boss) = <<1, 2>>

\* The scenes whose Model.elm has the level marker and no prototype import.
Unmatched == {n \in WithModel(sdirs) : sdirs[n].lvl /\ sdirs[n].imp = NoProto}

\* C19: a scene whose Model.elm has the level marker and no prototype import
\* does not stop the reconcile, which completes whenever every import that is
\* there names a prototype with a Model.elm; the scene is recorded with the
\* raw flag of its Model.elm, without sceneproto reference and in no levels.
C19_UnmatchedTolerated ==
    [][(pc = "update_config" /\ pc' # "exited")
          => /\ (\A n \in WithModel(sdirs) \ Unmatched :
                    (sdirs[n].lvl => sdirs[n].imp \in WithModel(pdirs)))
                   => pc' = "finish"
             /\ pc' = "finish" =>
                   \A n \in Unmatched :
                      /\ Has(json'.scenes, n)
                      /\ Get(json'.scenes, n).sceneproto = NoProto
                      /\ Get(json'.scenes, n).raw = sdirs[n].raw
                      /\ \A i \in DOMAIN json'.sceneprotos :
                            ~InList(json'.sceneprotos[i].levels, n)]_vars

C19_Witness ==
    /\ pc = "finish"
    /\ cmd.op = "update"
    /\ 1 \in Unmatched
    /\ sdirs[1].raw
    /\ Has(json.scenes, 1)
    /\ Has(json.sceneprotos, Boss)
    /\ Get(json.scenes, 1) = SceneEntry(1, TRUE, NoProto)
    /\ LevelsOf(json, Boss) = <<2>>

\* All scene and sceneproto directories, before and after a step.
DirPairs ==
    {<<sdirs[n], sdirs'[n]>> : n \in SceneNames}
    \cup {<<pdirs[n], pdirs'[n]>> : n \in ProtoNames}

\* C20: no step of add_component or add_layer changes a SceneBase.elm or
\* ComponentBase.elm that exists; SceneBase.elm appears only at the probe of
\* SceneBase.elm, ComponentBase.elm only at the probe of ComponentBase.elm
\* of add_component or of add_layer with has_component; each probe that
\* finds the file absent, and goes on, leaves it generated.
C20_BasesGeneratedOnce ==
    [][pc # "idle" =>
        /\ \A p \in DirPairs :
              /\ p[1].base => (p[2].base /\ p[2].baseEdited = p[1].baseEdited)
              /\ p[1].cbase => (p[2].cbase /\ p[2].cbaseEdited = p[1].cbaseEdited)
              /\ (~p[1].base /\ p[2].base) => pc = "scene_base"
              /\ (~p[1].cbase /\ p[2].cbase) =>
                    (pc = "comp_base" /\ (cmd.op = "component" \/ cmd.has_component))
        /\ (pc = "scene_base" /\ pc' \notin {"raised", "exited"}) =>
              (IF cmd.is_proto THEN pdirs'[cmd.scene] ELSE sdirs'[cmd.scene]).base
        /\ (/\ pc = "comp_base"
            /\ cmd.op = "component" \/ cmd.has_component
            /\ pc' \notin {"raised", "exited"}) =>
              (IF cmd.is_proto THEN pdirs'[cmd.scene] ELSE sdirs'[cmd.scene]).cbase]_vars

C20_Witness ==
    /\ pc = "done"
    /\ cmd.op = "layer"
    /\ cmd.has_component
    /\ ~cmd.is_proto
    /\ sdirs[cmd.scene].raw
    /\ sdirs[cmd.scene].base
    /\ sdirs[cmd.scene].baseEdited
    /\ sdirs[cmd.scene].cbase
    /\ sdirs[cmd.scene].cbaseEdited
    /\ sdirs[cmd.scene].comps = CompNames
    /\ cmd.name \in sdirs[cmd.scene].layers

\* C21 as stated: remove(scene, N) started on a manifest that lists N gets
\* past its manifest changes: it does not raise there.
C21_ListedSceneRemovable ==
    [][(/\ pc = "remove"
        /\ cmd.type = "scene"
        /\ Has(json.scenes, cmd.name)
        /\ pc' # "exited")
          => pc' = "update_scenes"]_vars

\* The destination tokens at the places where the templates hold a marker.
AtMarkers(u) ==
    LET s == Combined(u.f)
        d == Combined(u.t)
        at == SelectSeq([i \in DOMAIN s |-> i], LAMBDA i : s[i] \in Markers)
    IN  [k \in DOMAIN at |-> d[at[k]]]

\* The markers left in the destinations.
MarkersLeft(files) == {tok \in Markers : InList(Combined(files), tok)}

\* C22 as stated: two templates whose combined text has the markers
\* [A, B, A], applies "x", "y", "z": the third place holds "z".
C22_ThirdValueAtThirdMarker ==
    (/\ MarkersOf(Combined(upd.f)) = <<MarkerA, MarkerB, MarkerA>>
     /\ upd.values = <<"x", "y", "z">>)
        => AtMarkers(upd) = <<"x", "y", "z">>

\* C22: two templates whose combined text has the markers [A, B, A]: the
\* first apply puts its value at every occurrence of A, in whichever file,
\* the second apply puts its value at B, and the third apply finds no marker
\* left: the repeat of A holds the first value, the third value is nowhere.
C22_RepeatedMarkerSharesValue ==
    (/\ MarkersOf(Combined(upd.f)) = <<MarkerA, MarkerB, MarkerA>>
     /\ upd.count >= 1)
        => LET v == upd.values
           IN  /\ AtMarkers(upd) =
                    <<v[1], IF Len(v) >= 2 THEN v[2] ELSE MarkerB, v[1]>>
               /\ Len(v) >= 3 =>
                    \A i \in DOMAIN Combined(upd.t) :
                        Combined(upd.t)[i] \in {v[1], v[2], Literal}

C22_Witness ==
    /\ MarkersOf(Combined(upd.f)) = <<MarkerA, MarkerB, MarkerA>>
    /\ MarkersOf(upd.f[2].text) # <<>>
    /\ upd.values = <<"x", "y", "z">>
    /\ AtMarkers(upd) = <<"x", "y", "x">>

\* C23: with k distinct markers in the templates, the k-th apply leaves no
\* marker in any destination; an earlier apply leaves markers and raises
\* nothing; an apply after the k-th leaves every destination as it is; and
\* an apply changes nothing of the engine but its count (and the values
\* given), the templates staying as they are.
C23_ValueCount ==
    [][(upd' # upd /\ upd'.exc = NoExc)
          => LET k == Cardinality(MarkersLeft(upd.f))
             IN  /\ upd'.count = upd.count + 1
                 /\ upd'.f = upd.f
                 /\ upd'.count >= k => MarkersLeft(upd'.t) = {}
                 /\ upd'.count < k => MarkersLeft(upd'.t) # {}
                 /\ upd.count >= k /\ upd.count > 0 => upd'.t = upd.t]_vars

C23_Witness ==
    /\ Cardinality(MarkersLeft(upd.f)) = 2
    /\ upd.count = 3
    /\ upd.exc = NoExc
    /\ MarkersLeft(upd.t) = {}
    /\ \A i \in DOMAIN upd.t : upd.t[i].exists

\* C24: check_name of a name whose first character is lowercase is the
\* name with that character upper-cased and the rest as typed; of any other
\* name it is the name; a second check_name changes nothing.
C24_FirstCharacterOnly ==
    arg.calls >= 1 =>
        /\ Len(arg.name) = Len(arg.typed)
        /\ \A i \in 2..Len(arg.typed) : arg.name[i] = arg.typed[i]
        /\ arg.name[1] = CASE arg.typed[1] = "a" -> "A"
                           [] arg.typed[1] = "b" -> "B"
                           [] OTHER -> arg.typed[1]

C24_Witness ==
    /\ arg.typed = <<"a", "b", "B">>
    /\ arg.calls = 2
    /\ arg.name = <<"A", "b", "B">>

\* C25: whatever git answers inside .messenger, update_config goes on to the
\* rebuild: it raises only the KeyError of a level whose prototype has no
\* directory, and otherwise persists the rebuilt maps with template_repo.url
\* the remote URL or blank, and template_repo.tag the exact tag, else the
\* upstream branch without "origin/" (blank for main and master), else blank.
C25_LookupsDegrade ==
    [][(pc = "update_config" /\ pc' # "exited")
          => LET dangling ==
                     \E n \in SceneNames :
                         /\ sdirs[n].model /\ sdirs[n].lvl
                         /\ ~pdirs[sdirs[n].imp].model
                 repo == tpl.inside.code = 0
                 tr == json'.template_repo
             IN  /\ pc' = IF dangling THEN "raised" ELSE "finish"
                 /\ pc' = "finish" =>
                      /\ json' = config'
                      /\ Keys(json'.scenes) = {n \in SceneNames : sdirs[n].model}
                      /\ Keys(json'.sceneprotos) =
                             {n \in ProtoNames : pdirs[n].model}
                      /\ tr.url = IF repo /\ tpl.url.code = 0 THEN Url ELSE Blank
                      /\ IF ~repo THEN tr.tag = Blank
                         ELSE IF tpl.tag.code = 0 THEN tr.tag = TagV1
                         ELSE IF tpl.upstream.code # 0 THEN tr.tag = Blank
                         ELSE \E b \in Branches :
                                 /\ tpl.upstream.out = OriginSlash \o b \o <<LF>>
                                 /\ tr.tag = IF b \in {Main, Master} THEN Blank
                                             ELSE b]_vars

C25_Witness ==
    /\ pc = "finish"
    /\ cmd.op = "update"
    /\ tpl.inside.code = 0
    /\ tpl.url.code # 0
    /\ tpl.tag.code # 0
    /\ tpl.upstream.code = 0
    /\ json.template_repo = [url |-> Blank, tag |-> Main2]
    /\ Keys(json.scenes) = SceneNames

\* C26: no step of a component, layer or gc command changes the scenes or
\* sceneprotos map of messenger.json or of the loaded manifest, and
\* add_component and add_layer on a scene or sceneproto that is not in the
\* manifest raise with the directory tree as it was when the command began.
C26_TopologyUntouched ==
    [][(pc # "idle" /\ cmd.op \in {"component", "layer", "gc"})
          => /\ json'.scenes = json.scenes
             /\ json'.sceneprotos = json.sceneprotos
             /\ pc' # "idle" =>
                  /\ config'.scenes = json.scenes
                  /\ config'.sceneprotos = json.sceneprotos
             /\ pc \in {"prompt", "add_component", "add_layer"} =>
                  UNCHANGED <<fsvars, gcs>>
             /\ (pc \in {"add_component", "add_layer"}
                 /\ ~Has(TheMap, cmd.scene) /\ pc' # "exited")
                    => pc' = "raised"]_vars

C26_Witness ==
    /\ pc = "raised"
    /\ cmd.op = "layer"
    /\ ~Has(TheMap, cmd.scene)
    /\ gcs.dirs[1] = "made"
    /\ sdirs[Boss].comps # {}
    /\ pdirs[Boss].layers # {}
    /\ json.scenes = <<SceneEntry(Boss, TRUE, NoProto)>>

\* C27 as stated: the files add_scene generates in the directory it made:
\* Model.elm always, SceneBase.elm exactly when raw is false, Init.elm
\* exactly with the init flag, for a scene and for a sceneproto.
C27_FilesFollowFlags ==
    [][(pc = "gen" /\ cmd.op = "scene" /\ pc' = "update_scenes")
          => LET d == IF cmd.is_proto THEN pdirs'[cmd.name] ELSE sdirs'[cmd.name]
             IN  /\ d.model
                 /\ d.base = ~cmd.raw
                 /\ d.init = cmd.init]_vars

\* The same scenes and sceneprotos: keys, raw flags, sceneproto references,
\* and levels up to their order.
SameMaps(a, b) ==
    /\ Keys(a.scenes) = Keys(b.scenes)
    /\ Keys(a.sceneprotos) = Keys(b.sceneprotos)
    /\ \A n \in Keys(a.scenes) : Get(a.scenes, n) = Get(b.scenes, n)
    /\ \A n \in Keys(a.sceneprotos) :
          LET p == Get(a.sceneprotos, n)
              q == Get(b.sceneprotos, n)
          IN  /\ p.raw = q.raw
              /\ Len(p.levels) = Len(q.levels)
              /\ \A l \in SceneNames : InList(p.levels, l) = InList(q.levels, l)

\* C28: after any sequence of completed scene, sceneproto, level and
\* remove --rm commands on a fresh project, update_config would find in the
\* directory tree the scenes and sceneprotos messenger.json lists.
C28_ManifestAgreesWithTree ==
    pc = "idle" =>
        /\ ~UpdateConfig(json).err
        /\ SameMaps(json, Manifest(UpdateConfig(json)))

C28_Witness ==
    /\ pc = "idle"
    /\ Has(json.sceneprotos, Boss)
    /\ Get(json.sceneprotos, Boss).raw
    /\ Get(json.sceneprotos, Boss).levels = <<Boss1>>
    /\ Has(json.scenes, Boss)
    /\ ~sdirs[Boss1].base
    /\ allScenes.list = <<Boss, Boss1>>

\* C29 as stated: when a scene, level or remove command has completed,
\* AllScenes.elm lists the keys of the manifest's scenes map, sorted.
C29_AllScenesListsScenes ==
    (pc = "done" /\ cmd.op \in {"scene", "level", "remove"})
        => /\ allScenes.exists
           /\ allScenes.list = Sorted(Keys(json.scenes))

\* C30 as stated: with auto-commit, a mutating command that was started on
\* a clean work tree and has completed leaves nothing untracked, modified
\* or staged, so that check_git_clean of the next create command passes.
C30_TreeCleanAfterCommand ==
    (pc = "done" /\ env.git /\ config.auto_commit) => TreeClean(git)

\* The scenes whose Model.elm refers back to a prototype that has no
\* directory with a Model.elm under src/SceneProtos.
Dangling ==
    {n \in WithModel(sdirs) :
        /\ sdirs[n].lvl
        /\ sdirs[n].imp # NoProto
        /\ ~(roots.protos /\ sdirs[n].imp \in WithModel(pdirs))}

\* C31: a reconcile never writes a dangling back-reference.  On a tree
\* without a scene that refers back to an unrecognized prototype it
\* completes, and every sceneproto reference of the manifest it writes names
\* a key of sceneprotos whose levels hold the scene; on a tree with such a
\* scene it raises, and messenger.json is as it was before the command.
C31_NoDanglingReference ==
    [][/\ (cmd'.op = "update" /\ pc \in {"idle", "prompt"}) => json' = json
       /\ (pc = "update_config" /\ pc' # "exited")
             => IF Dangling # {}
                THEN pc' = "raised" /\ json' = json
                ELSE /\ pc' = "finish"
                     /\ \A i \in DOMAIN json'.scenes :
                           LET e == json'.scenes[i]
                           IN  e.sceneproto # NoProto
                                  => /\ Has(json'.sceneprotos, e.sceneproto)
                                     /\ InList(Get(json'.sceneprotos,
                                                   e.sceneproto).levels,
                                               e.name)]_vars

\* A level refers back to a prototype whose directory has no Model.elm: the
\* reconcile has raised and the recorded manifest is still there.
C31_Witness ==
    /\ pc = "raised"
    /\ exc = "KeyError"
    /\ cmd.op = "update"
    /\ 1 \in Dangling
    /\ pdirs[Boss] = EmptyDir
    /\ json.scenes = <<SceneEntry(Boss1, TRUE, Boss)>>
    /\ json.sceneprotos = <<ProtoEntry(Boss, TRUE, <<Boss1>>)>>

====
